---- MODULE Spec2Model ----
(***************************************************************************)
(* A model of crew_disc_bot (src/bot.py, src/util.py).                     *)
(*                                                                         *)
(* Two components are modelled, each with its own specification:           *)
(*   SpecDelay - DelayCmd, the ticket queue that throttles outgoing calls; *)
(*               the callers are asyncio tasks, so a step of a caller is   *)
(*               the code between two suspension points (await).           *)
(*   SpecReg   - ReactionEmojis, the registry of timed reactions; its      *)
(*               methods contain no await, so each call is one step.       *)
(* The two clocks are the two clocks of the program: `now` is the event    *)
(* loop's monotonic clock (asyncio.sleep), counted in tenths of a second;  *)
(* `wall` is datetime.datetime.now(), counted in days.                     *)
(***************************************************************************)
EXTENDS Integers, Sequences, FiniteSets, TLC

(***************************************************************************)
(* Bounds of the model.                                                    *)
(***************************************************************************)
NumTasks == 2
MaxCalls == 3
MaxTime == 21
MaxDay == 4
MaxOps == 3
\* days that pass while the handlers run
MaxBotDays == 1

(***************************************************************************)
(* Program constants.                                                      *)
(***************************************************************************)
\* asyncio.sleep(0.1), in tenths of a second (bot.py:37)
PollTicks == 1
\* asyncio.sleep(1), in tenths of a second (bot.py:39)
ThrottleTicks == 10
\* ReactionEmojis.MAX_DURATION, in days (bot.py:56)
MAX_DURATION == 14
\* ReactionEmojis.RAND_REACT_PROB, in hundredths (bot.py:57)
RAND_REACT_PROB == 5

Tasks == 1..NumTasks

VARIABLES
    \* ---- DelayCmd (bot.py:25-29) ----
    curr_cmd,       \* self.curr_cmd
    total_cmd,      \* self.total_cmd
    \* ---- the callers of DelayCmd.delay (one coroutine frame per task) ----
    pc,             \* pc[t]: "idle" (outside delay), "poll" (suspended in the
                    \* sleep of line 37), "throttle" (suspended in the sleep of line 39),
                    \* "cancelled" (the task was cancelled inside delay and is gone)
    local_cmd,      \* local_cmd[t]: the local variable of line 33
    wake,           \* wake[t]: the loop time at which t's pending sleep is due
    now,            \* the event loop's clock
    \* ---- history of the delay queue (observations, not program state) ----
    arrivals,       \* number of tickets handed out so far
    arrival,        \* arrival[t]: t's position in the order tickets were taken
    returns,        \* sequence of [arrival, ticket, at]: the returns from delay(), in order
    \* ---- ReactionEmojis (bot.py:59-62) ----
    reactions,      \* self.reactions: usr_id -> (emoji -> expiry)
    used_emojis,    \* self.used_emojis
    saved,          \* the content of the pickle file, <<>> while there is none
    wall,           \* datetime.datetime.now()
    \* ---- history of the registry (observations, not program state) ----
    last,           \* the last call of a registry method and its outcome
    elapsed,        \* TRUE when `wall` has advanced since that call
    calls,          \* number of calls of registry methods so far
    sched,          \* sched[u][e]: expiry given by the latest successful
                    \* add_reaction(u, e, _) not followed by remove_all_reactions(u)
    \* ---- the handlers of get_client (bot.py:144-208), one per task ----
    hpc,            \* hpc[t]: "free" (no handler), "loop" (on_message, lines 150-157),
                    \* "reply" (a command, from its delay() to the end of its send),
                    \* "done" (the handler returned), "failed" (it raised)
    ext,            \* ext[t]: t is suspended in message.add_reaction or ctx.send
    frame,          \* frame[t]: the handler's message, locals and what it has done
    msgs            \* number of messages received so far

delayVars == <<curr_cmd, total_cmd, pc, local_cmd, wake, now, arrivals, arrival, returns>>
regVars == <<reactions, used_emojis, saved, wall, last, elapsed, calls, sched>>
botVars == <<hpc, ext, frame, msgs>>
vars == <<delayVars, regVars, botVars>>

(***************************************************************************)
(* Dictionaries: a Python dict is a function whose domain is its key set.  *)
(***************************************************************************)
EmptyDict == [k \in {} |-> 0]

Put(d, k, v) == [x \in (DOMAIN d) \cup {k} |-> IF x = k THEN v ELSE d[x]]

Restrict(d, keys) == [x \in keys |-> d[x]]

(***************************************************************************)
(* DelayCmd.delay (bot.py:31-48).                                          *)
(*                                                                         *)
(* The two `async with self.lock` blocks contain no await, and an          *)
(* uncontended asyncio.Lock is acquired and released without suspending,   *)
(* so each block runs to its end within the step that reaches it.  The     *)
(* only suspension points of delay() are the two sleeps.                   *)
(***************************************************************************)

\* (mutant) line 34 is lost: the counter is not incremented
take_ticket_same(total) == <<total, total>>

\* lines 33-34: <<local_cmd, total_cmd'>>
take_ticket(total) == <<total, total + 1>>

\* (mutant) line 36 with > for !=
my_turn_early(curr, local) == ~(curr > local)

\* line 36: the wait loop is left when `self.curr_cmd != local_cmd` is false
my_turn(curr, local) == ~(curr # local)

\* line 37 / line 39: the loop time at which a sleep started at `t` is due
poll_wake(t) == t + PollTicks

\* (mutant) line 39 sleeps no longer than line 37
throttle_wake_short(t) == t + PollTicks

throttle_wake(t) == t + ThrottleTicks

\* (mutant) the reset of lines 45-46 is taken after every call
mark_done_always_reset(curr, total) == <<0, 0>>

\* (mutant) the reset of lines 45-46 is never taken
mark_done_no_reset(curr, total) == <<curr + 1, total>>

\* lines 42-46: <<curr_cmd', total_cmd'>>
mark_done(curr, total) ==
    LET c == curr + 1
    IN  IF c = total THEN <<0, 0>> ELSE <<c, total>>

\* lines 36-39 from the loop test to the next suspension point, for task t
\* holding ticket `local` while the counter reads `curr`
wait_turn(t, curr, local) ==
    IF my_turn(curr, local)
    THEN /\ pc' = [pc EXCEPT ![t] = "throttle"]
         /\ wake' = [wake EXCEPT ![t] = throttle_wake(now)]
    ELSE /\ pc' = [pc EXCEPT ![t] = "poll"]
         /\ wake' = [wake EXCEPT ![t] = poll_wake(now)]

\* lines 32-39 up to the first suspension point: what a call of delay() by
\* task t does to the queue
enter_delay(t) ==
    /\ pc[t] = "idle"
    /\ arrivals < MaxCalls
    /\ LET tk == take_ticket(total_cmd)
       IN  /\ local_cmd' = [local_cmd EXCEPT ![t] = tk[1]]
           /\ total_cmd' = tk[2]
           /\ wait_turn(t, curr_cmd, tk[1])
    /\ arrivals' = arrivals + 1
    /\ arrival' = [arrival EXCEPT ![t] = arrivals + 1]

\* A task calls delay(): lines 32-34, then the first loop test.
delay_enter(t) ==
    /\ enter_delay(t)
    /\ UNCHANGED <<curr_cmd, now, returns, regVars, botVars>>

\* The sleep of line 37 is over: the loop test again.
delay_poll(t) ==
    /\ pc[t] = "poll"
    /\ now >= wake[t]
    /\ wait_turn(t, curr_cmd, local_cmd[t])
    /\ UNCHANGED <<curr_cmd, total_cmd, local_cmd, now, arrivals, arrival, returns, regVars, botVars>>

\* lines 41-48, when the sleep of line 39 is over: what the return of
\* delay() to task t does to the queue
leave_delay(t) ==
    /\ pc[t] = "throttle"
    /\ now >= wake[t]
    /\ LET done == mark_done(curr_cmd, total_cmd)
       IN  /\ curr_cmd' = done[1]
           /\ total_cmd' = done[2]
    /\ pc' = [pc EXCEPT ![t] = "idle"]
    /\ returns' = Append(returns, [arrival |-> arrival[t], ticket |-> local_cmd[t], at |-> now])
    /\ arrival' = [arrival EXCEPT ![t] = 0]
    \* the coroutine's frame is gone
    /\ local_cmd' = [local_cmd EXCEPT ![t] = 0]
    /\ wake' = [wake EXCEPT ![t] = 0]

\* The sleep of line 39 is over: lines 41-48, delay() returns.
delay_finish(t) ==
    /\ leave_delay(t)
    /\ UNCHANGED <<now, arrivals, regVars, botVars>>

\* The event loop's clock advances.  A sleep is over no earlier than it is
\* due, and may be over later.
Tick ==
    /\ now < MaxTime
    /\ now' = now + 1
    /\ UNCHANGED <<curr_cmd, total_cmd, pc, local_cmd, wake, arrivals, arrival, returns, regVars, botVars>>

InitDelay ==
    /\ curr_cmd = 0
    /\ total_cmd = 0
    /\ pc = [t \in Tasks |-> "idle"]
    /\ local_cmd = [t \in Tasks |-> 0]
    /\ wake = [t \in Tasks |-> 0]
    /\ now = 0
    /\ arrivals = 0
    /\ arrival = [t \in Tasks |-> 0]
    /\ returns = <<>>

(***************************************************************************)
(* ReactionEmojis (bot.py:52-118).                                         *)
(*                                                                         *)
(* self.reactions is a dict of dicts; a timestamp is a number of days.     *)
(* The lists returned by get_reactions are modelled by their sets of       *)
(* elements.                                                               *)
(***************************************************************************)
Users == {7, 42}

Emojis == {"fire", "skull"}

\* the durations callers pass: both limits, both sides of each
Durations == {-1, 0, 3, MAX_DURATION, MAX_DURATION + 1}

\* the values of random.random(), in hundredths: both sides of the threshold
Randoms == {RAND_REACT_PROB - 1, RAND_REACT_PROB}

\* (mutant) line 104 with <= for <
is_old_or_now(expiry, curr_time) == expiry <= curr_time

\* (mutant) line 104 with > for <
is_old_flipped(expiry, curr_time) == expiry > curr_time

\* line 104: the test that marks an entry for removal
is_old(expiry, curr_time) == expiry < curr_time

\* (mutant) line 109 is never reached: nothing is removed
remove_old_reactions_keep(reg, curr_time) == reg

\* lines 99-109: self.reactions after remove_old_reactions() at curr_time
remove_old_reactions(reg, curr_time) ==
    [u \in DOMAIN reg |->
        Restrict(reg[u], {e \in DOMAIN reg[u] : ~is_old(reg[u][e], curr_time)})]

\* (mutant) line 82 without its lower limit
invalid_duration_upper(duration) == duration > MAX_DURATION

\* line 82: the test that raises ValueError
invalid_duration(duration) == duration > MAX_DURATION \/ duration < 0

\* (mutant) line 88 keeps the later of the old and the new expiry
set_reaction_keep_later(reg, usr_id, emoji, expiry) ==
    LET r == IF usr_id \notin DOMAIN reg THEN Put(reg, usr_id, EmptyDict) ELSE reg
        e == IF emoji \in DOMAIN r[usr_id] /\ r[usr_id][emoji] > expiry
             THEN r[usr_id][emoji] ELSE expiry
    IN  Put(r, usr_id, Put(r[usr_id], emoji, e))

\* lines 85-88: self.reactions after the assignment of line 88
set_reaction(reg, usr_id, emoji, expiry) ==
    LET r == IF usr_id \notin DOMAIN reg THEN Put(reg, usr_id, EmptyDict) ELSE reg
    IN  Put(r, usr_id, Put(r[usr_id], emoji, expiry))

\* (mutant) line 96 empties the dict of a new owner only
clear_reactions_new_only(reg, usr_id) ==
    IF usr_id \in DOMAIN reg THEN reg ELSE Put(reg, usr_id, EmptyDict)

\* line 96: self.reactions after remove_all_reactions(usr_id)
clear_reactions(reg, usr_id) == Put(reg, usr_id, EmptyDict)

\* lines 115-118: the value get_reactions returns
reactions_of(reg, usr_id) ==
    IF usr_id \notin DOMAIN reg THEN {} ELSE DOMAIN reg[usr_id]

\* lines 64-66: the file after save()
snapshot(reg, used) == [exists |-> TRUE, reactions |-> reg, used_emojis |-> used]

\* (mutant) line 72 with <= for <
rand_passes_or_equal(r) == r <= RAND_REACT_PROB

\* line 72: the probability check
rand_passes(r) == r < RAND_REACT_PROB

\* line 74
possible_additions(used, curr_emojis) == used \ curr_emojis

\* line 79: the parameters of add_reaction after self; none has a default
add_reaction_params == <<"usr_id", "emoji", "duration">>

\* a call add_reaction(*args) binds when every parameter gets an argument,
\* and raises TypeError otherwise
binds(args) == Len(args) = Len(add_reaction_params)

(***************************************************************************)
(* The record of a call, kept in `last`:                                   *)
(*   op, usr, emoji, duration  the method and its arguments                *)
(*   rand       the value random.random() returned (add_random_reaction)   *)
(*   cand       possible_additions, when line 74 was reached               *)
(*   raised     the exception the call raised, "" when it returned         *)
(*   ret        the value get_reactions returned                           *)
(*   had        the owner's tokens before remove_all_reactions             *)
(*   shortened  add_reaction replaced an entry by one that expires sooner  *)
(*   prev, gap  for get_reactions: the call that preceded it, and whether  *)
(*              `wall` advanced between the two                            *)
(***************************************************************************)
NoPrev == [op |-> "none", usr |-> 0, emoji |-> "", raised |-> "", had |-> {}]

NoCall == [op |-> "none", usr |-> 0, emoji |-> "", duration |-> 0,
           rand |-> 0, cand |-> {}, raised |-> "", ret |-> {}, had |-> {},
           shortened |-> FALSE, prev |-> NoPrev, gap |-> FALSE]

Summary(call) == [op |-> call.op, usr |-> call.usr, emoji |-> call.emoji,
                  raised |-> call.raised, had |-> call.had]

\* a caller calls a method of the registry
called == calls < MaxOps /\ calls' = calls + 1 /\ elapsed' = FALSE

\* add_reaction(usr_id, emoji, duration), lines 79-93: what it does to the
\* registry.  It raises ValueError exactly when invalid_duration(duration).
add_reaction(usr_id, emoji, duration) ==
    LET swept == remove_old_reactions(reactions, wall)
    IN  IF invalid_duration(duration)
        THEN /\ reactions' = swept
             /\ UNCHANGED <<used_emojis, saved, sched>>
        ELSE /\ reactions' = set_reaction(swept, usr_id, emoji, wall + duration)
             /\ used_emojis' = used_emojis \cup {emoji}
             /\ saved' = snapshot(reactions', used_emojis')
             /\ sched' = set_reaction(sched, usr_id, emoji, wall + duration)

AddReaction(usr_id, emoji, duration) ==
    /\ called
    /\ add_reaction(usr_id, emoji, duration)
    /\ last' = [NoCall EXCEPT !.op = "add_reaction", !.usr = usr_id,
                              !.emoji = emoji, !.duration = duration,
                              !.raised = IF invalid_duration(duration)
                                         THEN "ValueError" ELSE "",
                              !.shortened =
                                  /\ ~invalid_duration(duration)
                                  /\ usr_id \in DOMAIN reactions
                                  /\ emoji \in DOMAIN reactions[usr_id]
                                  /\ reactions[usr_id][emoji] > wall + duration]
    /\ UNCHANGED <<wall, delayVars, botVars>>

\* remove_all_reactions(usr_id), lines 95-97
RemoveAllReactions(usr_id) ==
    /\ called
    /\ reactions' = clear_reactions(reactions, usr_id)
    /\ saved' = snapshot(reactions', used_emojis)
    /\ last' = [NoCall EXCEPT !.op = "remove_all_reactions", !.usr = usr_id,
                              !.had = reactions_of(reactions, usr_id)]
    /\ sched' = clear_reactions(sched, usr_id)
    /\ UNCHANGED <<used_emojis, wall, delayVars, botVars>>

\* get_reactions(usr_id), lines 111-118
GetReactions(usr_id) ==
    /\ called
    /\ reactions' = remove_old_reactions(reactions, wall)
    /\ saved' = snapshot(reactions', used_emojis)
    /\ last' = [NoCall EXCEPT !.op = "get_reactions", !.usr = usr_id,
                              !.ret = reactions_of(reactions', usr_id),
                              !.prev = Summary(last), !.gap = elapsed]
    /\ UNCHANGED <<used_emojis, wall, sched, delayVars, botVars>>

\* add_random_reaction(usr_id), lines 68-77, when random.random() returns r
AddRandomReaction(usr_id, r) ==
    LET call == [NoCall EXCEPT !.op = "add_random_reaction", !.usr = usr_id, !.rand = r]
        swept == remove_old_reactions(reactions, wall)
        cand == possible_additions(used_emojis, reactions_of(swept, usr_id))
    IN  /\ called
        /\ IF ~rand_passes(r)
           THEN /\ last' = call
                /\ UNCHANGED <<reactions, used_emojis, saved, sched>>
           ELSE \* line 73: get_reactions sweeps and saves
                IF cand = {}
                THEN /\ reactions' = swept
                     /\ saved' = snapshot(swept, used_emojis)
                     /\ last' = [call EXCEPT !.cand = cand]
                     /\ UNCHANGED <<used_emojis, sched>>
                ELSE \E emoji \in cand :
                        LET args == <<usr_id, emoji>>
                        IN  IF binds(args)
                            THEN \* not reached: line 77 passes two arguments
                                 /\ add_reaction(args[1], args[2], args[3])
                                 /\ last' = [call EXCEPT !.cand = cand, !.emoji = emoji,
                                                         !.duration = args[3]]
                            ELSE /\ reactions' = swept
                                 /\ saved' = snapshot(swept, used_emojis)
                                 /\ last' = [call EXCEPT !.cand = cand, !.emoji = emoji,
                                                         !.raised = "TypeError"]
                                 /\ UNCHANGED <<used_emojis, sched>>
        /\ UNCHANGED <<wall, delayVars, botVars>>

\* datetime.datetime.now() advances.
TickDay ==
    /\ wall < MaxDay
    /\ wall' = wall + 1
    /\ elapsed' = TRUE
    /\ UNCHANGED <<reactions, used_emojis, saved, last, calls, sched, delayVars, botVars>>

InitReg ==
    /\ reactions = EmptyDict
    /\ used_emojis = {}
    /\ saved = [exists |-> FALSE, reactions |-> EmptyDict, used_emojis |-> {}]
    /\ wall = 0
    /\ last = NoCall
    /\ elapsed = FALSE
    /\ calls = 0
    /\ sched = EmptyDict

(***************************************************************************)
(* The handlers of get_client (bot.py:144-208).                            *)
(*                                                                         *)
(* A command of a message: name is "" (no command), "react" or             *)
(* "removereactions"; usr is the mention as typed, a sequence of           *)
(* characters.                                                             *)
(*                                                                         *)
(* The frame of a handler:                                                 *)
(*   author, bot, cmd   the message                                        *)
(*   emojis     what get_reactions returned at line 148                    *)
(*   todo, cur  the tokens the loop of line 150 has yet to take, and the   *)
(*              token it is at                                             *)
(*   tried, failed, turns   the tokens message.add_reaction was called     *)
(*              with, those for which it raised, and the number of returns *)
(*              of delay() in the loop                                     *)
(*   passed, cand, raised   the random step: the probability check, the    *)
(*              candidates of line 74 and the exception that left          *)
(*              on_message                                                 *)
(*   dispatched process_commands was called (line 162)                     *)
(*   reply, sent   the reply the command chose and the number of calls of  *)
(*              ctx.send                                                   *)
(*   pre, post  the registry when the command was entered and when it      *)
(*              reached its delay()                                        *)
(*   call       the position, among all returns of delay(), of the return  *)
(*              that started the handler's latest external call            *)
(***************************************************************************)
NoCmd == [name |-> "", usr |-> <<>>, reaction |-> "", duration |-> 0]

NoView == [reactions |-> EmptyDict, used_emojis |-> {}]

NoFrame == [author |-> 0, bot |-> FALSE, cmd |-> NoCmd,
            emojis |-> {}, todo |-> {}, cur |-> "",
            tried |-> {}, failed |-> {}, turns |-> 0,
            passed |-> FALSE, cand |-> {}, raised |-> "",
            dispatched |-> FALSE, reply |-> "", sent |-> 0,
            pre |-> NoView, post |-> NoView, call |-> 0]

InitHandlers ==
    /\ hpc = [t \in Tasks |-> "free"]
    /\ ext = [t \in Tasks |-> FALSE]
    /\ frame = [t \in Tasks |-> NoFrame]
    /\ msgs = 0

(***************************************************************************)
(* Specifications.                                                         *)
(***************************************************************************)
Init == InitDelay /\ InitReg /\ InitHandlers

NextDelay ==
    \/ \E t \in Tasks : delay_enter(t)
    \/ \E t \in Tasks : delay_poll(t)
    \/ \E t \in Tasks : delay_finish(t)
    \/ Tick

NextReg ==
    \/ \E u \in Users, e \in Emojis, d \in Durations : AddReaction(u, e, d)
    \/ \E u \in Users : RemoveAllReactions(u)
    \/ \E u \in Users : GetReactions(u)
    \/ \E u \in Users, r \in Randoms : AddRandomReaction(u, r)
    \/ TickDay

SpecDelay == Init /\ [][NextDelay]_vars

SpecReg == Init /\ [][NextReg]_vars

(***************************************************************************)
(* Properties of the delay queue, checked under SpecDelay.                 *)
(***************************************************************************)

\* C1: callers return from delay() in the order they took their tickets:
\* the i-th return is by the i-th caller to have taken a ticket, so a caller
\* that took its ticket earlier has returned earlier, resets included.
C1_FifoRelease == \A i \in DOMAIN returns : returns[i].arrival = i

\* Two callers held tickets at once, and the second has returned.
C1_Witness ==
    /\ Len(returns) >= 2
    /\ returns[2].ticket = 1

\* C2: two consecutive returns from delay() are at least the throttle
\* interval (1 second) apart.
C2_MinGap ==
    \A i \in DOMAIN returns :
        i + 1 \in DOMAIN returns => returns[i + 1].at - returns[i].at >= 10

\* The queue drained and was reset between two returns, and the second came
\* as early as it can.
C2_Witness ==
    /\ Len(returns) >= 2
    /\ returns[2].ticket = 0
    /\ returns[2].at - returns[1].at = 10

\* C10: curr_cmd <= total_cmd; when they are equal no caller is inside
\* delay() and both are 0.
C10_Counters ==
    /\ curr_cmd <= total_cmd
    /\ curr_cmd = total_cmd =>
          /\ \A t \in Tasks : pc[t] = "idle"
          /\ curr_cmd = 0
          /\ total_cmd = 0

\* The queue has drained after serving two callers that held tickets at once.
C10_Witness ==
    /\ C1_Witness
    /\ curr_cmd = total_cmd

(***************************************************************************)
(* Properties of the registry, checked under SpecReg.                      *)
(***************************************************************************)

\* the registry holds an entry for (u, e)
Has(reg, u, e) == u \in DOMAIN reg /\ e \in DOMAIN reg[u]

\* the tokens of u whose expiry is not before time t
Active(reg, u, t) == {e \in Emojis : Has(reg, u, e) /\ reg[u][e] >= t}

\* some entry that was scheduled and not cleared has expired and is gone
SomeEvicted ==
    \E u \in Users, e \in Emojis :
        Has(sched, u, e) /\ sched[u][e] < wall /\ ~Has(reactions, u, e)

\* the step is a call of the method `op`
Calls(op) == calls' = calls + 1 /\ last'.op = op

\* every entry of reg2 is an entry of reg1 with the same expiry
NothingAddedOrChanged(reg1, reg2) ==
    \A u \in Users, e \in Emojis :
        Has(reg2, u, e) => Has(reg1, u, e) /\ reg2[u][e] = reg1[u][e]

\* every entry of reg1 missing from reg2 had expired before time t
OnlyExpiredRemoved(reg1, reg2, t) ==
    \A u \in Users, e \in Emojis :
        Has(reg1, u, e) /\ ~Has(reg2, u, e) => reg1[u][e] < t

\* C3: add_reaction(owner, token, d) with 0 <= d <= 14 succeeds, and a
\* get_reactions(owner) that follows it with no time elapsed and no call in
\* between returns token.
C3_AddThenGet ==
    /\ last.op = "add_reaction" /\ last.duration >= 0 /\ last.duration <= 14
          => last.raised = ""
    /\ (/\ last.op = "get_reactions"
        /\ last.prev.op = "add_reaction"
        /\ last.prev.raised = ""
        /\ last.prev.usr = last.usr
        /\ ~last.gap)
          => last.prev.emoji \in last.ret

\* get_reactions(owner) has just followed add_reaction(owner, token, 0), with
\* other entries in the registry.
C3_Witness ==
    /\ last.op = "get_reactions"
    /\ last.prev.op = "add_reaction"
    /\ last.prev.raised = ""
    /\ last.prev.usr = last.usr
    /\ ~last.gap
    /\ ~elapsed
    /\ sched[last.usr][last.prev.emoji] = wall
    /\ Cardinality(last.ret) = 2

\* C4: add_reaction(owner, token, d) with d < 0 or d > 14 raises; it adds no
\* entry and no owner, changes no expiry, removes only entries that had
\* expired, leaves used_emojis alone, and the tokens get_reactions(owner)
\* returns are those it would have returned before the call.
C4_InvalidDuration ==
    [][Calls("add_reaction") /\ (last'.duration < 0 \/ last'.duration > 14) =>
          /\ last'.raised = "ValueError"
          /\ DOMAIN reactions' = DOMAIN reactions
          /\ NothingAddedOrChanged(reactions, reactions')
          /\ OnlyExpiredRemoved(reactions, reactions', wall)
          /\ used_emojis' = used_emojis
          /\ Active(reactions', last'.usr, wall) = Active(reactions, last'.usr, wall)
      ]_vars

\* add_reaction has raised ValueError and its sweep removed an entry (the
\* file, which the failing call does not write, still has it).
C4_Witness ==
    /\ last.op = "add_reaction"
    /\ last.raised = "ValueError"
    /\ \E u \in Users, e \in Emojis :
          Has(saved.reactions, u, e) /\ ~Has(reactions, u, e)

\* C5: get_reactions(owner) returns exactly the tokens scheduled for owner,
\* and not cleared since, whose expiry (time of the latest add_reaction plus
\* its duration) is not before the time of the get_reactions call.
C5_VisibleIffNotExpired ==
    last.op = "get_reactions" /\ ~elapsed =>
        last.ret = Active(sched, last.usr, wall)

\* get_reactions returns one token of the owner and not the other, which
\* expired the day before.
C5_Witness ==
    /\ last.op = "get_reactions"
    /\ ~elapsed
    /\ \E e \in Emojis : Has(sched, last.usr, e) /\ sched[last.usr][e] = wall - 1
    /\ Cardinality(last.ret) = 1

\* C6: when add_random_reaction(owner) passes its probability check and
\* used_emojis minus the owner's active tokens is not empty, it returns
\* without error, having scheduled one of those tokens for owner with the
\* default duration of 3.
C6_RandomAddSchedules ==
    (/\ last.op = "add_random_reaction"
     /\ last.rand < 5
     /\ last.cand # {}
     /\ ~elapsed)
       => /\ last.raised = ""
          /\ last.emoji \in last.cand
          /\ Has(reactions, last.usr, last.emoji)
          /\ reactions[last.usr][last.emoji] = wall + 3

\* the tokens add_random_reaction(u) may pick, in the state before the call
Candidates(u) == used_emojis \ Active(reactions, u, wall)

\* every entry the step adds or changes is a candidate token of the owner
AddsOnlyCandidates ==
    \A u \in Users, e \in Emojis :
        (/\ Has(reactions', u, e)
         /\ ~Has(reactions, u, e) \/ reactions'[u][e] # reactions[u][e])
           => u = last'.usr /\ e \in Candidates(u)

\* C7 as stated: add_random_reaction(owner) adds or changes only tokens of
\* used_emojis that are not active for owner, and when there is none or the
\* probability check fails the registry entries are unchanged.
C7_RandomAddOriginal ==
    [][Calls("add_random_reaction") =>
          /\ AddsOnlyCandidates
          /\ (Candidates(last'.usr) = {} \/ last'.rand >= 5) => reactions' = reactions
      ]_vars

\* C7 as amended: add_random_reaction(owner) adds or changes only tokens of
\* used_emojis that are not active for owner; when the probability check
\* fails the registry entries are unchanged; when it passes and there is no
\* such token no entry is added or changed, and the entries removed are
\* those that had expired (the sweep of get_reactions, line 73).
C7_RandomAddAmended ==
    [][Calls("add_random_reaction") =>
          /\ AddsOnlyCandidates
          /\ last'.rand >= 5 => reactions' = reactions
          /\ Candidates(last'.usr) = {} =>
                /\ NothingAddedOrChanged(reactions, reactions')
                /\ OnlyExpiredRemoved(reactions, reactions', wall)
      ]_vars

\* add_random_reaction(owner) has passed its probability check with every
\* used token active for owner, and an expired entry is gone.
C7_Witness ==
    /\ last.op = "add_random_reaction"
    /\ last.rand < 5
    /\ last.cand = {}
    /\ reactions_of(reactions, last.usr) # {}
    /\ ~elapsed
    /\ SomeEvicted

\* no entry of the registry has expired at time `wall`
NoneExpired(reg) ==
    \A u \in Users, e \in Emojis : Has(reg, u, e) => reg[u][e] >= wall

C9_ClearThenGet ==
    /\ (/\ last.op = "get_reactions"
        /\ last.prev.op = "remove_all_reactions"
        /\ last.prev.usr = last.usr)
          => last.ret = {}
    /\ last.op = "remove_all_reactions" => last.raised = ""

\* get_reactions(owner) has followed a remove_all_reactions(owner) that
\* found tokens of owner.
C9_Witness ==
    /\ last.op = "get_reactions"
    /\ last.prev.op = "remove_all_reactions"
    /\ last.prev.usr = last.usr
    /\ last.prev.had # {}
    /\ ~last.gap

(***************************************************************************)
(* Liveness.  The clock of SpecDelay stops at MaxTime, which would leave   *)
(* the sleeps due later pending for ever.  Here the clock never stops: a   *)
(* tick is measured from the new present, so it leaves `now` as it is and  *)
(* brings every pending deadline one tick closer.  The event loop runs     *)
(* every timer that is due and its clock advances, which is the fairness   *)
(* stated.                                                                 *)
(***************************************************************************)
TickOn ==
    /\ wake' = [t \in Tasks |-> IF wake[t] > now THEN wake[t] - 1 ELSE wake[t]]
    /\ UNCHANGED <<curr_cmd, total_cmd, pc, local_cmd, now, arrivals, arrival, returns, regVars, botVars>>

NextDelayLive ==
    \/ \E t \in Tasks : delay_enter(t)
    \/ \E t \in Tasks : delay_poll(t)
    \/ \E t \in Tasks : delay_finish(t)
    \/ TickOn

SpecDelayLive ==
    /\ Init
    /\ [][NextDelayLive]_vars
    /\ WF_vars(TickOn)
    /\ \A t \in Tasks : WF_vars(delay_poll(t)) /\ WF_vars(delay_finish(t))

(***************************************************************************)
(* Cancellation.  A task suspended in one of the sleeps of delay() can be  *)
(* cancelled: CancelledError is raised at the await, delay() has no        *)
(* handler for it, and lines 41-46 are never run for its ticket.  The      *)
(* task is gone; its ticket stays in local_cmd[t] for the record.  The     *)
(* clock is that of SpecDelayLive: what follows a cancellation is checked  *)
(* however much time passes.                                               *)
(***************************************************************************)
delay_cancel(t) ==
    /\ pc[t] \in {"poll", "throttle"}
    /\ pc' = [pc EXCEPT ![t] = "cancelled"]
    /\ UNCHANGED <<curr_cmd, total_cmd, local_cmd, wake, now, arrivals, arrival, returns, regVars, botVars>>

NextDelayCancel ==
    \/ NextDelayLive
    \/ \E t \in Tasks : delay_cancel(t)

SpecDelayCancel == Init /\ [][NextDelayCancel]_vars

\* C11: once a caller that holds a ticket has abandoned delay(), curr_cmd
\* never passes its ticket, the counters are never reset (total_cmd stays
\* above the ticket), and no caller that took a ticket after it has returned.
C11_AbandonedTicketStalls ==
    \A t \in Tasks :
        pc[t] = "cancelled" =>
            /\ curr_cmd <= local_cmd[t]
            /\ total_cmd > local_cmd[t]
            /\ \A i \in DOMAIN returns : returns[i].arrival < arrival[t]

\* The queue has reached the abandoned ticket, and a caller that arrived
\* after it is polling.
C11_Witness ==
    \E t, s \in Tasks :
        /\ pc[t] = "cancelled"
        /\ curr_cmd = local_cmd[t]
        /\ local_cmd[t] > 0
        /\ pc[s] = "poll"
        /\ arrival[s] > arrival[t]
        /\ now >= wake[s]

\* C15: with no caller abandoning, fair scheduling and advancing time,
\* every call of delay() returns.
C15_EveryCallReturns ==
    \A t \in Tasks : (pc[t] # "idle") ~> (pc[t] = "idle")

\* Two calls have returned, the second having queued behind the first, and
\* a third has arrived after the reset.
C15_Witness ==
    /\ Len(returns) = 2
    /\ returns[2].ticket = 1
    /\ \E t \in Tasks : pc[t] = "throttle" /\ arrival[t] = 3 /\ local_cmd[t] = 0

\* the callers inside delay()
Inside == {t \in Tasks : pc[t] \in {"poll", "throttle"}}

\* C16: the callers inside delay() hold pairwise distinct tickets, each
\* still within the range curr_cmd .. total_cmd - 1: no reset has wiped the
\* range of a ticket in flight, and none is handed out twice.
C16_TicketsInFlight ==
    /\ \A t, s \in Inside : t # s => local_cmd[t] # local_cmd[s]
    /\ \A t \in Inside : curr_cmd <= local_cmd[t] /\ local_cmd[t] < total_cmd

\* A caller holds ticket 0 again, after a reset, while no one else is inside.
C16_Witness ==
    /\ Len(returns) >= 1
    /\ \E t \in Tasks : Inside = {t} /\ local_cmd[t] = 0 /\ total_cmd = 1

\* C17: at most one caller is in the throttle wait; its ticket is the one
\* curr_cmd shows, and every caller that took a ticket before it has returned.
C17_OneThrottle ==
    /\ Cardinality({t \in Tasks : pc[t] = "throttle"}) <= 1
    /\ \A t \in Tasks :
          pc[t] = "throttle" =>
              /\ curr_cmd = local_cmd[t]
              /\ Len(returns) = arrival[t] - 1

\* One caller is in its throttle wait, after the holder of the ticket
\* before it returned, while another polls behind it.
C17_Witness ==
    \E t, s \in Tasks :
        /\ pc[t] = "throttle"
        /\ local_cmd[t] = 1
        /\ pc[s] = "poll"
        /\ local_cmd[s] = 2

(***************************************************************************)
(* Persistence and overwriting, checked under SpecReg.                     *)
(***************************************************************************)

\* C12: whenever add_reaction (returning or raising), remove_all_reactions
\* or get_reactions was the last call of the registry, the state last
\* written by save() equals the registry in memory (reactions and
\* used_emojis).
C12_SnapshotCurrent ==
    last.op \in {"add_reaction", "remove_all_reactions", "get_reactions"} =>
        /\ saved.reactions = reactions
        /\ saved.used_emojis = used_emojis

\* C20: a successful add_reaction(owner, token, d) leaves the entry of
\* (owner, token) with expiry call time + d, whatever expiry it had before,
\* and leaves every other entry that has not expired as it was; it adds no
\* other entry.
C20_LastWriterWins ==
    [][Calls("add_reaction") /\ last'.raised = "" =>
          LET u == last'.usr
              e == last'.emoji
          IN  /\ u \in DOMAIN reactions' /\ e \in DOMAIN reactions'[u]
              /\ reactions'[u][e] = wall + last'.duration
              /\ \A v \in Users, f \in Emojis :
                    <<v, f>> # <<u, e>> =>
                       /\ (v \in DOMAIN reactions /\ f \in DOMAIN reactions[v]
                              /\ reactions[v][f] >= wall)
                            => /\ v \in DOMAIN reactions' /\ f \in DOMAIN reactions'[v]
                               /\ reactions'[v][f] = reactions[v][f]
                       /\ (v \in DOMAIN reactions' /\ f \in DOMAIN reactions'[v])
                            => /\ v \in DOMAIN reactions /\ f \in DOMAIN reactions[v]
                               /\ reactions'[v][f] = reactions[v][f]
      ]_vars

\* add_reaction has replaced an entry by one that expires sooner, while the
\* owner has another token.
C20_Witness ==
    /\ last.op = "add_reaction"
    /\ last.raised = ""
    /\ last.shortened
    /\ ~elapsed
    /\ reactions[last.usr][last.emoji] = wall + last.duration
    /\ Cardinality(DOMAIN reactions[last.usr]) = 2

(***************************************************************************)
(* util.get_id_from_tag (util.py:1-8).  A string is a sequence of          *)
(* characters.                                                             *)
(***************************************************************************)
RECURSIVE lstrip(_)
lstrip(str) ==
    IF str # <<>> /\ Head(str) = " " THEN lstrip(Tail(str)) ELSE str

RECURSIVE rstrip(_)
rstrip(str) ==
    IF str # <<>> /\ str[Len(str)] = " " THEN rstrip(SubSeq(str, 1, Len(str) - 1)) ELSE str

\* str.strip()
strip(str) == rstrip(lstrip(str))

\* str.removeprefix(prefix)
removeprefix(str, prefix) ==
    IF Len(str) >= Len(prefix) /\ SubSeq(str, 1, Len(prefix)) = prefix
    THEN SubSeq(str, Len(prefix) + 1, Len(str))
    ELSE str

\* str.removesuffix(suffix)
removesuffix(str, suffix) ==
    IF suffix # <<>> /\ Len(str) >= Len(suffix)
       /\ SubSeq(str, Len(str) - Len(suffix) + 1, Len(str)) = suffix
    THEN SubSeq(str, 1, Len(str) - Len(suffix))
    ELSE str

Digits == <<"0", "1", "2", "3", "4", "5", "6", "7", "8", "9">>

digit_value(c) == (CHOOSE i \in DOMAIN Digits : Digits[i] = c) - 1

is_digits(str) == str # <<>> /\ \A i \in DOMAIN str : \E j \in DOMAIN Digits : Digits[j] = str[i]

RECURSIVE digits_value(_)
digits_value(str) ==
    IF str = <<>> THEN 0
    ELSE 10 * digits_value(SubSeq(str, 1, Len(str) - 1)) + digit_value(str[Len(str)])

\* int(str) raises ValueError unless str is, between blanks, an optional
\* sign and decimal digits
int_raises(str) ==
    LET b == strip(str)
    IN  ~(\/ is_digits(b)
          \/ b # <<>> /\ Head(b) \in {"+", "-"} /\ is_digits(Tail(b)))

\* int(str), when it does not raise
int_value(str) ==
    LET b == strip(str)
    IN  IF Head(b) = "-" THEN 0 - digits_value(Tail(b))
        ELSE IF Head(b) = "+" THEN digits_value(Tail(b))
        ELSE digits_value(b)

\* the value None
None == [ok |-> FALSE, id |-> 0]

\* util.py:4-8: [ok |-> TRUE, id |-> n] for the integer n, None on ValueError
get_id_from_tag(tag) ==
    LET body == removesuffix(removeprefix(strip(tag), <<"<", "@">>), <<">">>)
    IN  IF int_raises(body) THEN None ELSE [ok |-> TRUE, id |-> int_value(body)]

(***************************************************************************)
(* The registry methods as functions of the registry state                 *)
(* [reactions, used_emojis, saved], for the handlers, which call several   *)
(* of them between two suspension points.  They read the clock `wall`.     *)
(***************************************************************************)
registry == [reactions |-> reactions, used_emojis |-> used_emojis, saved |-> saved]

\* lines 111-113
after_get_reactions(rs) ==
    LET swept == remove_old_reactions(rs.reactions, wall)
    IN  [reactions |-> swept, used_emojis |-> rs.used_emojis,
         saved |-> snapshot(swept, rs.used_emojis)]

\* lines 79-93
after_add_reaction(rs, usr_id, emoji, duration) ==
    LET swept == remove_old_reactions(rs.reactions, wall)
    IN  IF invalid_duration(duration)
        THEN [rs |-> [rs EXCEPT !.reactions = swept], raised |-> "ValueError"]
        ELSE LET reg == set_reaction(swept, usr_id, emoji, wall + duration)
                 used == rs.used_emojis \cup {emoji}
             IN  [rs |-> [reactions |-> reg, used_emojis |-> used,
                          saved |-> snapshot(reg, used)],
                  raised |-> ""]

\* lines 95-97
after_remove_all_reactions(rs, usr_id) ==
    LET reg == clear_reactions(rs.reactions, usr_id)
    IN  [reactions |-> reg, used_emojis |-> rs.used_emojis,
         saved |-> snapshot(reg, rs.used_emojis)]

\* lines 68-77, when random.random() returns r and random.sample would
\* return `pick`
after_add_random_reaction(rs, usr_id, r, pick) ==
    IF ~rand_passes(r)
    THEN [rs |-> rs, passed |-> FALSE, cand |-> {}, raised |-> ""]
    ELSE LET got == after_get_reactions(rs)
             cand == possible_additions(got.used_emojis, reactions_of(got.reactions, usr_id))
             args == <<usr_id, pick>>
         IN  IF cand = {}
             THEN [rs |-> got, passed |-> TRUE, cand |-> cand, raised |-> ""]
             ELSE IF binds(args)
             THEN \* not reached: line 77 passes two arguments
                  LET added == after_add_reaction(got, args[1], args[2], args[3])
                  IN  [rs |-> added.rs, passed |-> TRUE, cand |-> cand, raised |-> added.raised]
             ELSE [rs |-> got, passed |-> TRUE, cand |-> cand, raised |-> "TypeError"]

(***************************************************************************)
(* The handlers (bot.py:144-208).  A handler runs from one suspension      *)
(* point to the next in one step; its suspension points are the sleeps of  *)
(* delay() and the external calls message.add_reaction and ctx.send.       *)
(***************************************************************************)

\* the mentions typed: a user mention, and a nickname mention (<@!id>)
Tags == {<<"<", "@", "7", ">">>, <<"<", "@", "!", "7", ">">>}

\* the durations typed: the default of line 186, and a negative one
CmdDurations == {3, -1}

Commands ==
    {NoCmd}
    \cup {[name |-> "react", usr |-> g, reaction |-> "fire", duration |-> d] :
             g \in Tags, d \in CmdDurations}
    \cup {[name |-> "removereactions", usr |-> g, reaction |-> "", duration |-> 0] :
             g \in Tags}

\* the messages received; process_commands does not run the command of a
\* message whose author is a bot
Messages ==
    {m \in [author : Users, bot : BOOLEAN, cmd : Commands] : m.bot => m.cmd = NoCmd}

\* the outcomes of message.add_reaction and ctx.send
Outcomes == {"ok", "NotFound", "HTTPException"}

\* what a command or the loop sees of the registry
view(rs) == [reactions |-> rs.reactions, used_emojis |-> rs.used_emojis]

set_registry(rs) ==
    /\ reactions' = rs.reactions
    /\ used_emojis' = rs.used_emojis
    /\ saved' = rs.saved
    /\ UNCHANGED <<wall, last, elapsed, calls, sched>>

\* the handler does not call delay() in this step
no_delay == UNCHANGED <<total_cmd, pc, local_cmd, wake, arrivals, arrival>>

\* (mutant) lines 154-157 leave the loop on a failure
after_attempt_stop(outcome, todo) == IF outcome = "ok" THEN todo ELSE {}

\* lines 153-157: the tokens left to the loop after an attempt
after_attempt(outcome, todo) == todo

\* lines 186-208 up to the delay() of the branch taken: the registry and
\* the reply chosen
react(author, cmd, rs) ==
    LET usr_id == get_id_from_tag(cmd.usr)
    IN  IF usr_id = None
        THEN [rs |-> rs, reply |-> "no_user"]
        ELSE IF usr_id.id = author
        THEN [rs |-> rs, reply |-> "self"]
        ELSE LET added == after_add_reaction(rs, usr_id.id, cmd.reaction, cmd.duration)
             IN  [rs |-> added.rs,
                  reply |-> IF added.raised = "ValueError" THEN "invalid" ELSE "added"]

\* lines 165-183 up to the delay() of the branch taken
removereactions(author, cmd, rs) ==
    LET usr_id == get_id_from_tag(cmd.usr)
    IN  IF usr_id = None
        THEN [rs |-> rs, reply |-> "no_user"]
        ELSE IF usr_id.id = author
        THEN [rs |-> rs, reply |-> "self"]
        ELSE [rs |-> after_remove_all_reactions(rs, usr_id.id), reply |-> "removed"]

\* line 162, for task t with frame f and registry rs
process_commands(t, f, rs) ==
    IF f.cmd.name = ""
    THEN /\ hpc' = [hpc EXCEPT ![t] = "done"]
         /\ frame' = [frame EXCEPT ![t] = f]
         /\ set_registry(rs)
         /\ no_delay
    ELSE LET out == IF f.cmd.name = "react"
                    THEN react(f.author, f.cmd, rs)
                    ELSE removereactions(f.author, f.cmd, rs)
         IN  /\ hpc' = [hpc EXCEPT ![t] = "reply"]
             /\ frame' = [frame EXCEPT ![t] = [f EXCEPT !.reply = out.reply,
                                                        !.pre = view(rs),
                                                        !.post = view(out.rs)]]
             /\ set_registry(out.rs)
             /\ enter_delay(t)

\* lines 72-76: the values random.random() and random.sample can return
\* to add_random_reaction(usr_id); "" when random.sample is not called
random_draws(rs, usr_id) ==
    {d \in [r : Randoms, pick : Emojis \cup {""}] :
        LET got == after_get_reactions(rs)
            cand == possible_additions(got.used_emojis, reactions_of(got.reactions, usr_id))
        IN  IF rand_passes(d.r) /\ cand # {} THEN d.pick \in cand ELSE d.pick = ""}

\* lines 159-162
after_loop(t, f, rs) ==
    \E d \in IF f.bot THEN {[r |-> 0, pick |-> ""]} ELSE random_draws(rs, f.author) :
        LET ar == IF f.bot
                  THEN [rs |-> rs, passed |-> FALSE, cand |-> {}, raised |-> ""]
                  ELSE after_add_random_reaction(rs, f.author, d.r, d.pick)
            f1 == [f EXCEPT !.cur = "", !.passed = ar.passed, !.cand = ar.cand,
                            !.raised = ar.raised]
        IN  IF ar.raised # ""
            THEN \* the exception leaves on_message
                 /\ hpc' = [hpc EXCEPT ![t] = "failed"]
                 /\ frame' = [frame EXCEPT ![t] = f1]
                 /\ set_registry(ar.rs)
                 /\ no_delay
            ELSE process_commands(t, [f1 EXCEPT !.dispatched = TRUE], ar.rs)

\* line 150: the next iteration, or the end of the loop
next_token(t, f, rs) ==
    IF f.todo = {}
    THEN after_loop(t, f, rs)
    ELSE \E emoji \in f.todo :
            /\ hpc' = [hpc EXCEPT ![t] = "loop"]
            /\ frame' = [frame EXCEPT ![t] = [f EXCEPT !.cur = emoji,
                                                       !.todo = f.todo \ {emoji}]]
            /\ set_registry(rs)
            /\ enter_delay(t)

\* A message arrives and a new task, t, runs on_message for it: lines
\* 146-148, then on to the first suspension point.
on_message(t, m) ==
    /\ hpc[t] = "free"
    /\ t = msgs + 1
    /\ msgs' = msgs + 1
    /\ LET rs == after_get_reactions(registry)
           emojis == reactions_of(rs.reactions, m.author)
           f == [NoFrame EXCEPT !.author = m.author, !.bot = m.bot, !.cmd = m.cmd,
                                !.emojis = emojis, !.todo = emojis]
       IN  next_token(t, f, rs)
    /\ UNCHANGED <<curr_cmd, now, returns, ext>>

\* delay() returns to the handler of task t, which starts its external
\* call: message.add_reaction (line 153) or ctx.send.
delay_return(t) ==
    /\ hpc[t] \in {"loop", "reply"}
    /\ leave_delay(t)
    /\ ext' = [ext EXCEPT ![t] = TRUE]
    /\ frame' = [frame EXCEPT ![t] =
                    IF hpc[t] = "loop"
                    THEN [@ EXCEPT !.turns = @ + 1, !.tried = @ \cup {frame[t].cur},
                                   !.call = Len(returns) + 1]
                    ELSE [@ EXCEPT !.sent = @ + 1, !.call = Len(returns) + 1]]
    /\ UNCHANGED <<now, arrivals, regVars, hpc, msgs>>

\* message.add_reaction is over for task t, with the given outcome: lines
\* 154-157, then on to line 150.
attempt_done(t, outcome) ==
    /\ ext[t]
    /\ hpc[t] = "loop"
    /\ ext' = [ext EXCEPT ![t] = FALSE]
    /\ LET f == [frame[t] EXCEPT
                    !.failed = IF outcome = "ok" THEN @ ELSE @ \cup {frame[t].cur},
                    !.todo = after_attempt(outcome, @)]
       IN  next_token(t, f, registry)
    /\ UNCHANGED <<curr_cmd, now, returns, msgs>>

\* ctx.send is over for task t: the command is over, whether the call
\* returned or raised.
send_done(t) ==
    /\ ext[t]
    /\ hpc[t] = "reply"
    /\ ext' = [ext EXCEPT ![t] = FALSE]
    /\ hpc' = [hpc EXCEPT ![t] = "done"]
    /\ UNCHANGED <<delayVars, regVars, frame, msgs>>

\* The clocks of the handlers.  No property of the handlers measures time,
\* and a sleep may be over later than it is due, so the event loop's clock
\* advances a throttle period at a time: every pending sleep is due after
\* it.  The date advances a day at a time.
SecondPasses ==
    /\ wake' = [t \in Tasks |-> IF wake[t] > now + ThrottleTicks
                                 THEN wake[t] - ThrottleTicks ELSE now]
    /\ UNCHANGED <<curr_cmd, total_cmd, pc, local_cmd, now, arrivals, arrival, returns,
                   regVars, botVars>>

DayPasses ==
    /\ wall < MaxBotDays
    /\ TickDay

\* lines 125-130: the registries the bot starts with: none on file, or one
\* loaded from the file of an earlier run
Pickles ==
    {[exists |-> FALSE, reactions |-> EmptyDict, used_emojis |-> {}],
     snapshot(set_reaction(set_reaction(set_reaction(EmptyDict, 7, "fire", 1),
                                        7, "skull", 1),
                           42, "fire", 0),
              {"fire", "skull"})}

InitLoaded ==
    /\ saved \in Pickles
    /\ reactions = saved.reactions
    /\ used_emojis = saved.used_emojis
    /\ wall = 0
    /\ last = NoCall
    /\ elapsed = FALSE
    /\ calls = 0
    /\ sched = saved.reactions

InitBot == InitDelay /\ InitLoaded /\ InitHandlers

NextBot ==
    \/ \E t \in Tasks, m \in Messages : on_message(t, m)
    \/ \E t \in Tasks : delay_poll(t)
    \/ \E t \in Tasks : delay_return(t)
    \/ \E t \in Tasks, o \in Outcomes : attempt_done(t, o)
    \/ \E t \in Tasks : send_done(t)
    \/ SecondPasses
    \/ DayPasses

SpecBot == InitBot /\ [][NextBot]_vars

(***************************************************************************)
(* Properties of the handlers, checked under SpecBot.                      *)
(***************************************************************************)

\* the handler of task t has left the loop of lines 150-157
LoopLeft(t) == hpc[t] \in {"reply", "done", "failed"}

\* the handler of task t has entered a command
Ran(t) == hpc[t] \in {"reply", "done"} /\ frame[t].cmd.name # ""

\* the command of frame f is one that fails: its mention does not parse, it
\* names the author, or it is react with a duration outside 0..14
Failing(f) ==
    LET usr_id == get_id_from_tag(f.cmd.usr)
    IN  \/ usr_id = None
        \/ usr_id.id = f.author
        \/ f.cmd.name = "react" /\ (f.cmd.duration < 0 \/ f.cmd.duration > 14)

\* task t sends one reply, after a turn of the delay queue
OneReply(t) ==
    /\ frame[t].sent = (IF hpc[t] = "done" \/ ext[t] THEN 1 ELSE 0)
    /\ hpc[t] = "reply" /\ ~ext[t] => pc[t] \in {"poll", "throttle"}

\* a command changes the registry for another user than its author only
NotForAuthor(f) ==
    f.post # f.pre =>
        /\ get_id_from_tag(f.cmd.usr) # None
        /\ get_id_from_tag(f.cmd.usr).id # f.author
        /\ \A u \in Users \ {get_id_from_tag(f.cmd.usr).id}, e \in Emojis :
              /\ Has(f.post.reactions, u, e) => Has(f.pre.reactions, u, e)
              /\ Has(f.pre.reactions, u, e) /\ f.pre.reactions[u][e] >= wall
                    => Has(f.post.reactions, u, e)

\* C13: in on_message a reaction attempt is made for each of the k tokens
\* get_reactions returned, each after its own turn of delay(), whichever
\* of the earlier attempts failed with NotFound or HTTPException.
C13_EveryTokenAttempted ==
    \A t \in Tasks :
        LET f == frame[t]
        IN  /\ f.failed \subseteq f.tried
            /\ f.tried \subseteq f.emojis
            /\ f.turns = Cardinality(f.tried)
            /\ hpc[t] = "loop" =>
                  /\ f.tried \cup {f.cur} \cup f.todo = f.emojis
                  /\ ext[t] <=> f.cur \in f.tried
            /\ LoopLeft(t) => f.tried = f.emojis

\* on_message has left the loop for an author with two tokens, and both
\* attempts failed.
C13_Witness ==
    \E t \in Tasks :
        /\ LoopLeft(t)
        /\ Cardinality(frame[t].emojis) = 2
        /\ frame[t].failed = frame[t].emojis
        /\ frame[t].turns = 2

\* C14 as stated: a failing command sends exactly one reply through the
\* delay queue and leaves the registry (entries and used_emojis) as it
\* was, and no command schedules or clears reactions for its own author.
C14_FailingCommandOriginal ==
    \A t \in Tasks :
        Ran(t) =>
            /\ NotForAuthor(frame[t])
            /\ Failing(frame[t]) =>
                  /\ frame[t].reply \in {"no_user", "self", "invalid"}
                  /\ OneReply(t)
                  /\ frame[t].post = frame[t].pre

\* C14 (amended): a failing command sends exactly one reply through the
\* delay queue; it adds no entry and no owner, clears no owner, changes no
\* expiry and leaves used_emojis as it was; with an unparseable mention or
\* the author as target it leaves the registry as it was, and react with a
\* duration outside 0..14 removes only entries that had expired.  No command
\* schedules or clears reactions for its own author.
C14_FailingCommandAmended ==
    \A t \in Tasks :
        Ran(t) =>
            /\ NotForAuthor(frame[t])
            /\ Failing(frame[t]) =>
                  /\ frame[t].reply \in {"no_user", "self", "invalid"}
                  /\ OneReply(t)
                  /\ frame[t].post.used_emojis = frame[t].pre.used_emojis
                  /\ DOMAIN frame[t].post.reactions = DOMAIN frame[t].pre.reactions
                  /\ NothingAddedOrChanged(frame[t].pre.reactions, frame[t].post.reactions)
                  /\ OnlyExpiredRemoved(frame[t].pre.reactions, frame[t].post.reactions, wall)
                  /\ frame[t].reply # "invalid" => frame[t].post = frame[t].pre

\* react with a duration of -1 has sent its reply, and its sweep removed an
\* entry that expired while on_message was in its loop.
C14_Witness ==
    \E t \in Tasks :
        /\ hpc[t] = "done"
        /\ frame[t].reply = "invalid"
        /\ frame[t].sent = 1
        /\ frame[t].post # frame[t].pre

C19_ReachesDispatch ==
    \A t \in Tasks :
        LoopLeft(t) => frame[t].dispatched /\ frame[t].tried = frame[t].emojis

====
